---- MODULE Spec2Model ----
(***************************************************************************)
(* Model of the tracey leak detector (src/tracey.cpp): the allocation      *)
(* registry (container + stats + create_id + timestamp_id), the reentrancy *)
(* guard custom_mutex and the multiplexed entry point tracer() with the    *)
(* public wrappers watch / forget / restart / summary / report; the report *)
(* writer container::_report with tracey::tree (insert, merge, recalc,     *)
(* print); the teardown of the static registry at exit; the web server     *)
(* thread (webmain / req).                                                 *)
(***************************************************************************)
EXTENDS Integers, FiniteSets, Sequences, TLC

\* ---------------------------------------------------------------- bounds
NumThreads == 2     \* host threads calling into the tracer
MaxAddr    == 2     \* non-null host addresses are 1..MaxAddr
MaxSize    == 1     \* ordinary allocation sizes are 0..MaxSize
MaxId      == 3     \* cap on create_id() calls made by top-level operations
MaxLeaks   == 8     \* leaks of one report whose score is computed
MaxEntries == 80    \* map entries of one report whose score is computed
MaxSkip    == 2     \* kTraceyStacktraceSkipBegin / SkipEnd are 0..MaxSkip
MaxNodes   == 2     \* keyed nodes of a tree that is merged are 0..MaxNodes
MaxDepth   == 2     \* frames captured per callstack are 0..MaxDepth

\* ------------------------------------------------------------- constants
\* (size_t)~0 ; the width is scaled down, only the five sentinels
\* SizeMax, SizeMax-1 .. SizeMax-4 have to stay apart from ordinary sizes.
SizeMax == 255

Threads == 1..NumThreads
Addrs   == 1..MaxAddr
NullPtr == 0
Sizes   == 0..MaxSize
None    == 0                      \* "no thread" as owner of the mutex

\* address of the local object a wrapper hands to tracer (&opcode, &st, &rep)
LocalAddr(t) == MaxAddr + t

\* --------------------------------------------------------- data structures
\* leak * : the null pointer is the record with id 0 (create_id() >= 1)
NullLeak == [size |-> 0, id |-> 0]

\* map slot: no entry at all, or a pair< leak *, callstack * >
NoEntry == [present |-> FALSE, first |-> NullLeak, second |-> FALSE]

\* stats_t() : value-initialised counters
stats_t == [leaks |-> 0, usage |-> 0, peak |-> 0]

\* contents of an empty report
NoLog == [n_leak |-> 0, wasted |-> 0, addrs |-> {},
          pct |-> [num |-> 0, den |-> 1], score |-> ""]

\* the object behind ptr for the control / stats / report opcodes
NoObj == [code |-> 0, st |-> stats_t, log |-> NoLog]

\* values a default-initialised local `stats_t st;` may hold
StIndeterminate == {stats_t, [leaks |-> 1, usage |-> 1, peak |-> 1]}

\* return addresses found in captured callstacks
Frames == 1..2

\* callstack::frames[0 .. num_frames-1]
Stacks == UNION {[1..n -> Frames] : n \in 0..MaxDepth}

\* the keys (void *)((~0)-0) and (void *)((~0)-1) of the two branches
BottomTop == SizeMax
TopBottom == SizeMax - 1

\* enum { max_frames = kTraceyStacktraceMaxTraces }
kTraceyStacktraceMaxTraces == 128

\* the number of values of an `unsigned`; the width is scaled down to 16
\* bits, which keeps every wrapped value above kTraceyStacktraceMaxTraces
UintRange == 65536

\* tracey::tree<void *> as the map from the key path of each node to its
\* value; the tree object itself is the node with the empty path
NewTree == [p \in {<<>>} |-> 0]

\* the thread started by `new std::thread( tracey::webmain, 0 )`
WebThread == NumThreads + 1

\* no field of stats read yet; a field that was read holds <<value>>
NotRead == [leaks |-> <<>>, usage |-> <<>>, peak |-> <<>>]

\* no call of view() in progress
NoRep == [at |-> "none", buf |-> NullPtr]

NoCall == [api |-> "none", ptr |-> NullPtr, size |-> 0]

NoRet == [ptr |-> NullPtr, value |-> NullPtr, wild |-> 0]

VARIABLES
    map,            \* custom_mutex::map  (container), address -> slot
    stats,          \* tracey::stats
    id,             \* static id of create_id()
    timestamp_id,   \* tracey::timestamp_id
    first,          \* custom_mutex::first (std::recursive_mutex)
    recursive,      \* custom_mutex::recursive
    pc,             \* position of each thread inside tracer()
    cur,            \* the call each thread is executing
    obj,            \* the local object each thread passed by address
    nested,         \* has the current call issued a reentrant call
    outstanding,    \* history: size last watched per address, 0-1 sequence
    highwater,      \* history: the highest stats.usage since the last
                    \* restart (since the start when there was none)
    pair,           \* history: a watch(p,s) directly followed by forget(p)
    ret,            \* what the call hands back: tracer's ptr, the wrapper's
                    \* return value, diagnostics printed
    once,           \* static bool once of tracer()
    raised,         \* per thread: the wrapper its last call left by an
                    \* exception, or "none"
    kTraceyReportWildPointers,     \* build setting
    kTraceyStacktraceSkipBegin,    \* build setting
    kTraceyStacktraceSkipEnd,      \* build setting
    kTraceyReportOnExit,           \* build setting
    tally,          \* _report(): n_leak and this->size() of one report
    score,          \* _report(): the score printed for tally
    filtered,       \* _report(): the tuples collect_leaks returned
    tree,           \* _report(): tree of frames
    lines,          \* _report(): lines written by tree.print
    file,           \* _report(): what has been written to fp, in order
    translate,      \* _report(): std::map< void *, std::string > translate
    stage,          \* _report(): position in the tree part of one report
    mutex,          \* custom_mutex *mutex: TRUE when it points to m
    process,        \* "running", "exiting" (static destructors), "ended"
                    \* (kTraceyDie) or "crashed"
    deref,          \* m or its map was used after its destructor began
    exitLive,       \* history: the addresses of the records in the map
                    \* when ~container began
    exitReports,    \* the reports ~container has produced
    lhs,            \* tree::operator+=: *this before the call
    rhs,            \* tree::operator+=: the argument t
    merged,         \* tree::operator+=: *this after the call
    webpc,          \* position of the web server thread in webmain / req
    seen,           \* req: the fields of stats read for {USAGE} so far
    merging,        \* "none", "operands" (before the call), "merged" or
                    \* "self" (after lhs += lhs)
    rep             \* per thread: where it stands in view(), and the buffer
                    \* of view()'s local `tracey::string rep`

\* the tree part of one report
treeVars == <<filtered, tree, lines, file, translate, stage>>

\* state that tracer() never writes
\* the static custom_mutex m and the process around it
teardownVars == <<mutex, process, deref, exitLive, exitReports>>

\* the build settings
config == <<kTraceyReportWildPointers, kTraceyStacktraceSkipBegin,
            kTraceyStacktraceSkipEnd, kTraceyReportOnExit>>

\* one call of tree::operator+=
mergeVars == <<lhs, rhs, merged, merging>>

\* the web server thread
webVars == <<webpc, seen>>

\* view(): its local string
viewVars == <<rep>>

others == <<config, tally, score, treeVars, teardownVars, mergeVars,
            webVars, viewVars>>

\* state of the tracer and of the calls in progress
tracerVars == <<map, stats, id, timestamp_id, first, recursive, pc, cur, obj,
                nested, outstanding, highwater, pair, ret, once, raised>>

vars == <<tracerVars, others>>

\* ------------------------------------------------------------- create_id
\* a create_id that hands out the current value again once it is not zero
create_idRepeats(i) == IF i = 0 THEN 1 ELSE i

create_id(i) == i + 1

\* ---------------------------------------------------- container::_clear
_clear(m) == [a \in Addrs |-> NoEntry]

\* collect_leaks with the watermark comparison reversed
RECURSIVE SumSizesOf(_, _)
SumSizesOf(m, S) ==
    IF S = {} THEN 0
    ELSE LET a == CHOOSE x \in S : TRUE
         IN  m[a].first.size + SumSizesOf(m, S \ {a})

collect_leaksReversed(m, ts) ==
    LET list == {a \in Addrs : /\ m[a].present
                               /\ m[a].first.id # 0
                               /\ m[a].second
                               /\ m[a].first.id < ts}
    IN  [n_leak |-> Cardinality(list), wasted |-> SumSizesOf(m, list),
         addrs |-> list]

\* ---------------------------------------------- container::collect_leaks
RECURSIVE SumSizes(_, _)
SumSizes(m, S) ==
    IF S = {} THEN 0
    ELSE LET a == CHOOSE x \in S : TRUE
         IN  m[a].first.size + SumSizes(m, S \ {a})

collect_leaks(m, ts) ==
    LET list == {a \in Addrs : /\ m[a].present
                               /\ m[a].first.id # 0
                               /\ m[a].second
                               /\ m[a].first.id >= ts}
    IN  [n_leak |-> Cardinality(list), wasted |-> SumSizes(m, list),
         addrs |-> list]

\* ------------------------------------------------------- quality score
\* std::map::size(): entries of the map, emptied ones included
mapSize(m) == Cardinality({a \in Addrs : m[a].present})

\* double leaks_pct, kept exact as the fraction num / den.  The quotients
\* the code compares against (0, 1.25, 2.5, 5, 10) are exact in binary
\* floating point and the division is correctly rounded, so comparing the
\* fraction decides the same way as comparing the double.
leaks_pct(n_leak, sz) ==
    IF sz # 0 THEN [num |-> n_leak * 100, den |-> sz]
    ELSE [num |-> 0, den |-> 1]

\* leaks_pct > hundredths / 100
Gt(p, hundredths) == p.num * 100 > hundredths * p.den

\* the cascade with `>=` in the 1.25 test
ScoreGe(p) ==
    LET s0 == "perfect!"
        s1 == IF Gt(p, 0)    THEN "excellent" ELSE s0
        s2 == IF p.num * 100 >= 125 * p.den THEN "good" ELSE s1
        s3 == IF Gt(p, 250)  THEN "poor"      ELSE s2
        s4 == IF Gt(p, 500)  THEN "mediocre"  ELSE s3
        s5 == IF Gt(p, 1000) THEN "lame"      ELSE s4
    IN  s5

\* the cascade of unconditional tests: each later test overwrites the score
Score(p) ==
    LET s0 == "perfect!"
        s1 == IF Gt(p, 0)    THEN "excellent" ELSE s0
        s2 == IF Gt(p, 125)  THEN "good"      ELSE s1
        s3 == IF Gt(p, 250)  THEN "poor"      ELSE s2
        s4 == IF Gt(p, 500)  THEN "mediocre"  ELSE s3
        s5 == IF Gt(p, 1000) THEN "lame"      ELSE s4
    IN  s5

\* ------------------------------------------------------------ tracey::tree
Children(tr, p) ==
    {q \in DOMAIN tr : Len(q) = Len(p) + 1 /\ SubSeq(q, 1, Len(p)) = p}

\* tree::insert / operator(): the child under key k, created with value 0
\* when it does not exist
insert(tr, p, k) ==
    LET q == Append(p, k)
    IN  IF q \in DOMAIN tr THEN tr
        ELSE [x \in DOMAIN tr \cup {q} |-> IF x \in DOMAIN tr THEN tr[x] ELSE 0]

\* tree::operator=( value ) / set
set(tr, p, v) == [tr EXCEPT ![p] = v]

\* tree::operator+= on distinct objects: the children of t whose key *this
\* lacks are copied in with their subtrees (map::insert keeps an element
\* whose key is there already), then get() = t.get()
merge(a, b) ==
    LET new == {q \in DOMAIN b : q # <<>> /\ <<Head(q)>> \notin DOMAIN a}
    IN  [q \in DOMAIN a \cup new |->
            IF q = <<>> THEN b[<<>>]
            ELSE IF q \in DOMAIN a THEN a[q] ELSE b[q]]

\* the value tree::recalc returns on the node p: its own value for a node
\* without children, else the sum of what recalc returns on its children
RECURSIVE recalcValue(_, _)
RECURSIVE SumRecalc(_, _)
SumRecalc(tr, S) ==
    IF S = {} THEN 0
    ELSE LET q == CHOOSE x \in S : TRUE
         IN  recalcValue(tr, q) + SumRecalc(tr, S \ {q})

recalcValue(tr, p) ==
    IF Children(tr, p) = {} THEN tr[p]
    ELSE SumRecalc(tr, Children(tr, p))

\* recalc adding up the values the children hold, without recalculating
\* them first
recalcShallow(tr) ==
    LET RECURSIVE Sum(_)
        Sum(S) == IF S = {} THEN 0
                  ELSE LET q == CHOOSE x \in S : TRUE
                       IN  tr[q] + Sum(S \ {q})
    IN  [p \in DOMAIN tr |->
            IF Children(tr, p) = {} THEN tr[p] ELSE Sum(Children(tr, p))]

\* the tree after tree.recalc(): every node holds the value recalc
\* returned on it
recalc(tr) == [p \in DOMAIN tr |-> recalcValue(tr, p)]

\* print visiting the children from the highest key down
RECURSIVE printDescending(_, _, _)
printDescending(tr, p, depth) ==
    LET RECURSIVE from(_)
        from(S) ==
            IF S = {} THEN <<>>
            ELSE LET q == CHOOSE x \in S : \A y \in S : y[Len(y)] <= x[Len(x)]
                 IN  <<[depth |-> depth,
                        count |-> Cardinality(Children(tr, p)),
                        key   |-> q[Len(q)],
                        value |-> tr[q],
                        path  |-> q]>>
                     \o printDescending(tr, q, depth + 1) \o from(S \ {q})
    IN  from(Children(tr, p))

\* tree::print on the node p: one line per node below p, children in the
\* iteration order of std::map (ascending key); `count` is this->size() of
\* the node whose children are being printed
RECURSIVE print(_, _, _)
print(tr, p, depth) ==
    LET RECURSIVE from(_)
        from(S) ==
            IF S = {} THEN <<>>
            ELSE LET q == CHOOSE x \in S : \A y \in S : x[Len(x)] <= y[Len(y)]
                 IN  <<[depth |-> depth,
                        count |-> Cardinality(Children(tr, p)),
                        key   |-> q[Len(q)],
                        value |-> tr[q],
                        path  |-> q]>>
                     \o print(tr, q, depth + 1) \o from(S \ {q})
    IN  from(Children(tr, p))

\* ------------------------------------- container::_report, trees of frames
\* callstack::frames[ n ] for n inside the array: the slots from num_frames
\* on were zeroed by the constructor
FrameAt(frames, n) == IF n < Len(frames) THEN frames[n + 1] ELSE 0

\* `unsigned end = my_callstack->num_frames - 1 - kTraceyStacktraceSkipEnd`
End(t) == (Len(t.cs) - 1 - kTraceyStacktraceSkipEnd) % UintRange

\* the loop over the frames of the leak t is entered and its first
\* iteration reads frames[ end - 0 ] outside the array frames[max_frames]
OutOfArray(t) ==
    /\ Len(t.cs) # 0
    /\ kTraceyStacktraceSkipBegin <= End(t)
    /\ End(t) >= kTraceyStacktraceMaxTraces

\* the indices start + i and end - i the loop over the frames of t reads:
\* both cursors sweep start .. end
ReadIndices(t) ==
    IF Len(t.cs) # 0 THEN kTraceyStacktraceSkipBegin..End(t) ELSE {}

\* the loop over the frames of one leak: both cursors advance once per i
RECURSIVE AddFrames(_, _, _, _, _, _, _, _)
AddFrames(tr, _tree, _tree_inv, frames, i, start, end, sz) ==
    IF start + i > end THEN tr
    ELSE LET k    == FrameAt(frames, start + i)
             kinv == FrameAt(frames, end - i)
             t1   == set(insert(tr, _tree, k), Append(_tree, k), sz)
             t2   == set(insert(t1, _tree_inv, kinv),
                         Append(_tree_inv, kinv), sz)
         IN  AddFrames(t2, Append(_tree, k), Append(_tree_inv, kinv),
                       frames, i + 1, start, end, sz)

\* the loop over the filtered leaks without `if( my_callstack->num_frames )`,
\* stopped after the iteration that reads the zeroed frames[ 0 ]
AddLeakNoDepthTest(tr, t) ==
    IF Len(t.cs) # 0
    THEN AddFrames(tr, <<BottomTop>>, <<TopBottom>>, t.cs, 0,
                   kTraceyStacktraceSkipBegin, End(t), t.lk)
    ELSE AddFrames(tr, <<BottomTop>>, <<TopBottom>>, t.cs, 0, 0, 0, t.lk)

\* one iteration of the loop over the filtered leaks
AddLeak(tr, t) ==
    IF Len(t.cs) # 0
    THEN AddFrames(tr, <<BottomTop>>, <<TopBottom>>, t.cs, 0,
                   kTraceyStacktraceSkipBegin, End(t), t.lk)
    ELSE tr

RECURSIVE AddLeaks(_, _, _)
AddLeaks(tr, list, n) ==
    IF n > Len(list) THEN tr
    ELSE AddLeaks(AddLeak(tr, list[n]), list, n + 1)

\* the tree with its two branches, then every filtered leak in list order
CreateTrees(list) ==
    AddLeaks(insert(insert(NewTree, <<>>, BottomTop), <<>>, TopBottom),
             list, 1)

\* std::set< void * > set: the frames inserted into the trees
FrameSet(list) ==
    UNION {{FrameAt(list[n].cs, k) : k \in ReadIndices(list[n])} :
           n \in 1..Len(list)}

\* --------------------------------------------------- container::_report
\* (the leaks reported, the percentage and the score of the header)
_report(m, ts) ==
    LET found == collect_leaks(m, ts)
        p     == leaks_pct(found.n_leak, mapSize(m))
    IN  [n_leak |-> found.n_leak, wasted |-> found.wasted,
         addrs |-> found.addrs, pct |-> p, score |-> Score(p)]

\* ------------------------------------------------------------ tracer body
\* The registry as one value, so that the body of tracer() between
\* try_lock() and unlock() is a function of it.
Registry == [map |-> map, stats |-> stats, id |-> id,
             timestamp_id |-> timestamp_id]

\* entries whose leak pointer is non-null
LiveRecords(m) == {a \in Addrs : m[a].present /\ m[a].first.id # 0}

Found(m, ptr) == ptr \in Addrs /\ m[ptr].present

\* the free branch without nulling the leak and callstack pointers
TracerForgetKeepsLeak(r, ptr, o) ==
    IF ptr \in Addrs /\ r.map[ptr].present
    THEN LET slot == r.map[ptr]
             st1  == IF slot.first.id # 0
                     THEN [r.stats EXCEPT !.leaks = @ - 1,
                                          !.usage = @ - slot.first.size]
                     ELSE r.stats
         IN  [reg |-> [r EXCEPT !.stats = st1],
              ptr |-> ptr, size |-> SizeMax, obj |-> o]
    ELSE [reg |-> r, ptr |-> NullPtr, size |-> SizeMax, obj |-> o]

\* the free branch without `stats.usage -= size`
TracerForgetNoUsage(r, ptr, o) ==
    IF ptr \in Addrs /\ r.map[ptr].present
    THEN LET slot == r.map[ptr]
             st1  == IF slot.first.id # 0
                     THEN [r.stats EXCEPT !.leaks = @ - 1]
                     ELSE r.stats
         IN  [reg |-> [r EXCEPT !.map[ptr] = [present |-> TRUE,
                                              first |-> NullLeak,
                                              second |-> FALSE],
                                !.stats = st1],
              ptr |-> ptr, size |-> SizeMax, obj |-> o]
    ELSE [reg |-> r, ptr |-> NullPtr, size |-> SizeMax, obj |-> o]

\* size == ~0 : free observed
TracerForget(r, ptr, o) ==
    IF Found(r.map, ptr)
    THEN LET slot == r.map[ptr]
             st1  == IF slot.first.id # 0
                     THEN [r.stats EXCEPT !.leaks = @ - 1,
                                          !.usage = @ - slot.first.size]
                     ELSE r.stats
         IN  [reg |-> [r EXCEPT !.map[ptr] = [present |-> TRUE,
                                              first |-> NullLeak,
                                              second |-> FALSE],
                                !.stats = st1],
              ptr |-> ptr, size |-> SizeMax, obj |-> o]
    ELSE [reg |-> r, ptr |-> NullPtr, size |-> SizeMax, obj |-> o]

\* the reset opcode without map._clear()
TracerControlNoClear(r, ptr, o) ==
    LET r1 == IF o.code = 1
              THEN [map |-> r.map, stats |-> stats_t,
                    id |-> create_id(r.id),
                    timestamp_id |-> create_id(r.id)]
              ELSE r
        o1 == IF o.code = 2 THEN [o EXCEPT !.st = r1.stats] ELSE o
    IN  [reg |-> r1, ptr |-> ptr, size |-> SizeMax - 1, obj |-> o1]

\* the reset opcode leaving stats.peak as it was
TracerControlKeepsPeak(r, ptr, o) ==
    LET r1 == IF o.code = 1
              THEN [map |-> _clear(r.map),
                    stats |-> [stats_t EXCEPT !.peak = r.stats.peak],
                    id |-> create_id(r.id),
                    timestamp_id |-> create_id(r.id)]
              ELSE r
        o1 == IF o.code = 2 THEN [o EXCEPT !.st = r1.stats] ELSE o
    IN  [reg |-> r1, ptr |-> ptr, size |-> SizeMax - 1, obj |-> o1]

\* size == (~0) - 1 : control opcode read from *ptr
TracerControl(r, ptr, o) ==
    LET r1 == IF o.code = 1
              THEN [map |-> _clear(r.map), stats |-> stats_t,
                    id |-> create_id(r.id),
                    timestamp_id |-> create_id(r.id)]
              ELSE r
        o1 == IF o.code = 2 THEN [o EXCEPT !.st = r1.stats] ELSE o
    IN  [reg |-> r1, ptr |-> ptr, size |-> SizeMax - 1, obj |-> o1]

\* size == (~0) - 2 : size query
TracerSize(r, ptr, o) ==
    IF Found(r.map, ptr)
    THEN [reg |-> r, ptr |-> ptr, size |-> r.map[ptr].first.size, obj |-> o]
    ELSE [reg |-> r, ptr |-> NullPtr, size |-> 0, obj |-> o]

\* size == (~0) - 3 : generate report
TracerReport(r, ptr, o) ==
    [reg |-> r, ptr |-> ptr, size |-> SizeMax - 3,
     obj |-> [o EXCEPT !.log = _report(r.map, r.timestamp_id)]]

\* the allocation branch without the peak update
TracerWatchNoPeak(r, ptr, size, o) ==
    LET lk == [size |-> size, id |-> create_id(r.id)]
    IN  [reg |-> [r EXCEPT !.map[ptr] = [present |-> TRUE, first |-> lk,
                                         second |-> TRUE],
                           !.id = create_id(r.id),
                           !.stats = [leaks |-> r.stats.leaks + 1,
                                      usage |-> r.stats.usage + size,
                                      peak  |-> r.stats.peak]],
         ptr |-> ptr, size |-> size, obj |-> o]

\* any other size : allocation observed
TracerWatch(r, ptr, size, o) ==
    LET lk == [size |-> size, id |-> create_id(r.id)]
        u  == r.stats.usage + size
    IN  [reg |-> [r EXCEPT !.map[ptr] = [present |-> TRUE, first |-> lk,
                                         second |-> TRUE],
                           !.id = create_id(r.id),
                           !.stats = [leaks |-> r.stats.leaks + 1,
                                      usage |-> u,
                                      peak  |-> IF u > r.stats.peak
                                                THEN u ELSE r.stats.peak]],
         ptr |-> ptr, size |-> size, obj |-> o]

TracerBody(r, ptr, size, o) ==
    IF size = SizeMax          THEN TracerForget(r, ptr, o)
    ELSE IF size = SizeMax - 1 THEN TracerControl(r, ptr, o)
    ELSE IF size = SizeMax - 2 THEN TracerSize(r, ptr, o)
    ELSE IF size = SizeMax - 3 THEN TracerReport(r, ptr, o)
    ELSE IF size = SizeMax - 4 THEN [reg |-> r, ptr |-> ptr, size |-> size,
                                     obj |-> o]
    ELSE TracerWatch(r, ptr, size, o)

\* the free branch's else: no entry for ptr in the map
WildPointer(r, ptr, size) == size = SizeMax /\ ~Found(r.map, ptr)

\* number of "wild pointer deallocation" messages the call prints
Diagnostics(r, ptr, size, on) ==
    IF WildPointer(r, ptr, size) /\ on THEN 1 ELSE 0

\* ------------------------------------------------------- public wrappers
\* the (ptr, size) pair each wrapper hands to tracer()
watch(p, s)  == [api |-> "watch",   ptr |-> p, size |-> s]
forget(p)    == [api |-> "forget",  ptr |-> p, size |-> SizeMax]
restart(t)   == [api |-> "restart", ptr |-> LocalAddr(t), size |-> SizeMax - 1]
summary(t)   == [api |-> "summary", ptr |-> LocalAddr(t), size |-> SizeMax - 2]
report(t)    == [api |-> "report",  ptr |-> LocalAddr(t), size |-> SizeMax - 3]
view(t)      == [api |-> "view",    ptr |-> LocalAddr(t), size |-> SizeMax - 4]

\* the value the wrapper returns to its caller: watch and forget return
\* their own argument, whatever tracer() returned
Returns(c, tptr) == IF c.api \in {"watch", "forget"} THEN c.ptr ELSE NullPtr

\* every size_t a caller can pass: ordinary sizes and the five sentinels
AnySize == Sizes \cup {SizeMax - k : k \in 0..4}

\* the calls on the null pointer
NullCalls == {watch(NullPtr, s) : s \in AnySize} \cup {forget(NullPtr)}

\* a tracer that goes on with a null ptr
NullPtrPasses(c) == FALSE

\* tracer(): `if( !ptr )`
NullPtrReturns(c) == c.ptr = NullPtr

Calls(t) == {watch(p, s) : p \in Addrs, s \in Sizes}
            \cup {forget(p) : p \in Addrs}
            \cup {restart(t), summary(t), report(t)}

\* the local object whose address the wrapper passes
LocalObjs(c) ==
    IF c.api = "restart" THEN {[NoObj EXCEPT !.code = 1]}
    ELSE IF c.api = "summary" THEN {[NoObj EXCEPT !.st = s] : s \in StIndeterminate}
    ELSE {NoObj}

\* ------------------------------------------------------------ custom_mutex
\* a lock() that never waits
CanLockNoWait(t) == TRUE

\* std::recursive_mutex::lock() returns only when the mutex is free or
\* already owned by the caller
CanLock(t) == first.owner \in {None, t}

firstLock(f, t)   == [owner |-> t, count |-> f.count + 1]
firstUnlock(f) == IF f.count <= 1 THEN [owner |-> None, count |-> 0]
                  ELSE [f EXCEPT !.count = @ - 1]

\* try_lock without the `if( recursive )` rejection
try_lockNoReject(f, rec, t) ==
    [ok |-> TRUE, first |-> [owner |-> t, count |-> f.count + 1],
     recursive |-> TRUE]

\* try_lock without `recursive = true`
try_lockNoFlag(f, rec, t) ==
    IF rec THEN [ok |-> FALSE, first |-> f, recursive |-> rec]
    ELSE [ok |-> TRUE, first |-> [owner |-> t, count |-> f.count + 1],
          recursive |-> FALSE]

\* custom_mutex::try_lock, after first.lock() has returned
try_lock(f, rec, t) ==
    LET f1 == firstLock(f, t)
    IN  IF rec THEN [ok |-> FALSE, first |-> firstUnlock(f1), recursive |-> rec]
        ELSE [ok |-> TRUE, first |-> f1, recursive |-> TRUE]

\* ------------------------------------------------------------- history
\* what the sequence of applied calls means at the level of the interface
NextOutstanding(c) ==
    IF c.api = "watch" THEN [outstanding EXCEPT ![c.ptr] = <<c.size>>]
    ELSE IF c.api = "forget" THEN [outstanding EXCEPT ![c.ptr] = <<>>]
    ELSE IF c.api = "restart" THEN [a \in Addrs |-> <<>>]
    ELSE outstanding

\* the highest stats.usage since the last restart, once the call c has
\* left the counters at st
NextHighwater(c, st) ==
    IF c.api = "restart" \/ st.usage > highwater THEN st.usage ELSE highwater

NoPair == [stage |-> "none", ptr |-> NullPtr, leaks |-> 0, usage |-> 0]

NextPair(c) ==
    IF c.api = "watch"
    THEN [stage |-> "watched", ptr |-> c.ptr,
          leaks |-> stats.leaks, usage |-> stats.usage]
    ELSE IF c.api = "forget" /\ pair.stage = "watched" /\ pair.ptr = c.ptr
    THEN [pair EXCEPT !.stage = "paired"]
    ELSE NoPair

\* ------------------------------------------------------------------ Init
InitTracer ==
    /\ map = [a \in Addrs |-> NoEntry]
    /\ stats = stats_t
    /\ id = 0
    /\ timestamp_id = 0
    /\ first = [owner |-> None, count |-> 0]
    /\ recursive = FALSE
    /\ pc = [t \in Threads |-> "idle"]
    /\ cur = [t \in Threads |-> NoCall]
    /\ obj = [t \in Threads |-> NoObj]
    /\ nested = [t \in Threads |-> FALSE]
    /\ outstanding = [a \in Addrs |-> <<>>]
    /\ highwater = 0
    /\ pair = NoPair
    /\ ret = [t \in Threads |-> NoRet]
    /\ once = FALSE
    /\ raised = [t \in Threads |-> "none"]

\* translate before any frame is entered
NoLabels == <<>>

NoTally == [n_leak |-> 0, size |-> 0]

NoTrees ==
    /\ filtered = <<>>
    /\ tree = NewTree
    /\ lines = <<>>
    /\ file = <<>>
    /\ translate = NoLabels
    /\ stage = "none"

\* no tree merge under study
NoMerge ==
    /\ lhs = NewTree
    /\ rhs = NewTree
    /\ merged = NewTree
    /\ merging = "none"

\* no report under study
NoReport ==
    /\ tally = NoTally
    /\ score = ""
    /\ NoTrees
    /\ NoMerge

\* custom_mutex::custom_mutex has run: mutex = this; no request is being
\* served
Running ==
    /\ webpc = "listening"
    /\ seen = NotRead
    /\ mutex = TRUE
    /\ process = "running"
    /\ deref = FALSE
    /\ exitLive = {}
    /\ exitReports = <<>>
    /\ rep = [t \in Threads |-> NoRep]

\* the settings of the default build other than kTraceyReportWildPointers
Defaults ==
    /\ kTraceyStacktraceSkipBegin = 0
    /\ kTraceyStacktraceSkipEnd = 0
    /\ kTraceyReportOnExit = TRUE

\* the default build
Init ==
    /\ InitTracer
    /\ kTraceyReportWildPointers = FALSE
    /\ Defaults
    /\ NoReport
    /\ Running

\* a build with -DkTraceyReportWildPointers=1
InitWild ==
    /\ InitTracer
    /\ kTraceyReportWildPointers = TRUE
    /\ Defaults
    /\ NoReport
    /\ Running

\* one report over a map of up to MaxEntries entries, n_leak of them leaks
InitScore ==
    /\ InitTracer
    /\ kTraceyReportWildPointers = FALSE
    /\ Defaults
    /\ tally \in {[n_leak |-> n, size |-> z] :
                    n \in 0..MaxLeaks, z \in 0..MaxEntries}
    /\ tally.n_leak <= tally.size
    /\ score = ""
    /\ NoTrees
    /\ NoMerge
    /\ Running

\* the tuples { addr, lk, cs } of the leaks in f, in the order collect_leaks
\* walks the map (ascending address); lk stands for lk->size
RECURSIVE ToList(_, _)
ToList(f, a) ==
    IF a > MaxAddr THEN <<>>
    ELSE (IF f[a].listed
          THEN <<[addr |-> a, lk |-> f[a].lk, cs |-> f[a].cs]>>
          ELSE <<>>) \o ToList(f, a + 1)

\* one report at the point where collect_leaks has returned
InitTrees ==
    /\ InitTracer
    /\ kTraceyReportWildPointers = FALSE
    /\ Defaults
    /\ tally = NoTally
    /\ score = ""
    /\ \E f \in [Addrs -> [listed : BOOLEAN, lk : Sizes, cs : Stacks]] :
          filtered = ToList(f, 1)
    /\ tree = NewTree
    /\ lines = <<>>
    /\ file = <<>>
    /\ translate = NoLabels
    /\ stage = "filtered"
    /\ NoMerge
    /\ Running

\* --------------------------------------------------------------- actions
\* A thread outside the tracer calls a wrapper; tracer() passes the null
\* and mutex checks and runs try_lock().
Enter(t) ==
    /\ pc[t] = "idle"
    /\ CanLock(t)
    /\ \E c \in Calls(t) \cup NullCalls : \E o \in LocalObjs(c) :
         /\ ~NullPtrReturns(c)
         /\ (c.api \in {"watch", "restart"}) => id < MaxId
         /\ LET r == try_lock(first, recursive, t)
            IN  /\ first' = r.first
                /\ recursive' = r.recursive
                /\ IF r.ok
                   THEN /\ pc' = [pc EXCEPT ![t] = "cs"]
                        /\ cur' = [cur EXCEPT ![t] = c]
                        /\ obj' = [obj EXCEPT ![t] = o]
                        /\ once' = TRUE
                   ELSE UNCHANGED <<pc, cur, obj, once>>
    /\ UNCHANGED <<map, stats, id, timestamp_id, nested, outstanding,
                   highwater, pair, ret, raised, others>>

\* where tracer() stands once the registry has been read or written: the
\* report branch still has _report()'s symbol resolution and printing to do
AfterBody(c) == IF c.api = "report" THEN "resolving" ELSE "done"

\* The thread holding the guard runs the branch of tracer() selected by size
\* (for a report: up to the snapshot taken by collect_leaks).
Body(t) ==
    /\ pc[t] = "cs"
    /\ LET r == TracerBody(Registry, cur[t].ptr, cur[t].size, obj[t])
       IN  /\ map' = r.reg.map
           /\ stats' = r.reg.stats
           /\ id' = r.reg.id
           /\ timestamp_id' = r.reg.timestamp_id
           /\ obj' = [obj EXCEPT ![t] = r.obj]
           /\ ret' = [ret EXCEPT ![t] =
                        [ptr   |-> r.ptr,
                         value |-> Returns(cur[t], r.ptr),
                         wild  |-> Diagnostics(Registry, cur[t].ptr,
                                       cur[t].size,
                                       kTraceyReportWildPointers)]]
    /\ pc' = [pc EXCEPT ![t] = AfterBody(cur[t])]
    /\ outstanding' = NextOutstanding(cur[t])
    /\ highwater' = NextHighwater(cur[t], stats')
    /\ pair' = NextPair(cur[t])
    /\ UNCHANGED <<first, recursive, cur, nested, once, raised, others>>

\* _report() after collect_leaks: trees, resolve_stack_trace, print, footer.
\* tracer() has not reached mutex->unlock() yet.
Resolve(t) ==
    /\ pc[t] = "resolving"
    /\ pc' = [pc EXCEPT ![t] = "done"]
    /\ UNCHANGED <<map, stats, id, timestamp_id, first, recursive, cur, obj,
                   nested, outstanding, highwater, pair, ret, once, raised,
                   others>>

\* mutex->unlock(); return ptr
Unlock(t) ==
    /\ pc[t] = "done"
    /\ recursive' = FALSE
    /\ first' = firstUnlock(first)
    /\ pc' = [pc EXCEPT ![t] = "idle"]
    /\ cur' = [cur EXCEPT ![t] = NoCall]
    /\ obj' = [obj EXCEPT ![t] = NoObj]
    /\ nested' = [nested EXCEPT ![t] = FALSE]
    /\ ret' = [ret EXCEPT ![t] = NoRet]
    /\ UNCHANGED <<map, stats, id, timestamp_id, outstanding, highwater, pair,
                   once, raised, others>>

\* A watch or forget issued by the thread that is inside tracer() (the
\* hooked operator new / delete used by the tracer's own code).  The whole
\* nested call runs before the outer call continues.  Only the first such
\* call of a top-level call is a step: nested records that it happened.
Reenter(t) ==
    /\ pc[t] \in {"cs", "resolving", "done"}
    /\ ~nested[t]
    /\ CanLock(t)
    /\ \E c \in {watch(p, s) : p \in Addrs, s \in Sizes}
               \cup {forget(p) : p \in Addrs} :
         LET l == try_lock(first, recursive, t)
             r == TracerBody(Registry, c.ptr, c.size, NoObj)
         IN  IF l.ok
             THEN /\ map' = r.reg.map
                  /\ stats' = r.reg.stats
                  /\ id' = r.reg.id
                  /\ timestamp_id' = r.reg.timestamp_id
                  /\ recursive' = FALSE
                  /\ first' = firstUnlock(l.first)
                  /\ highwater' = NextHighwater(c, stats')
             ELSE /\ first' = l.first
                  /\ recursive' = l.recursive
                  /\ UNCHANGED <<map, stats, id, timestamp_id, highwater>>
    /\ nested' = [nested EXCEPT ![t] = TRUE]
    /\ UNCHANGED <<pc, cur, obj, outstanding, pair, ret, once, raised,
                   others>>

\* watch / forget on a null pointer: tracer() returns at `if( !ptr )` with
\* size = 0, before the mutex is looked at
EnterNull(t) ==
    /\ pc[t] = "idle"
    /\ \E c \in NullCalls :
         /\ NullPtrReturns(c)
         /\ cur' = [cur EXCEPT ![t] = [c EXCEPT !.size = 0]]
    /\ pc' = [pc EXCEPT ![t] = "returned"]
    /\ ret' = [ret EXCEPT ![t] = [ptr |-> NullPtr, value |-> NullPtr,
                                  wild |-> 0]]
    /\ UNCHANGED <<map, stats, id, timestamp_id, first, recursive, obj,
                   nested, outstanding, highwater, pair, once, raised,
                   others>>

\* the wrapper returns (void *)ptr to its caller
ReturnNull(t) ==
    /\ pc[t] = "returned"
    /\ pc' = [pc EXCEPT ![t] = "idle"]
    /\ cur' = [cur EXCEPT ![t] = NoCall]
    /\ ret' = [ret EXCEPT ![t] = NoRet]
    /\ UNCHANGED <<map, stats, id, timestamp_id, first, recursive, obj,
                   nested, outstanding, highwater, pair, once, raised,
                   others>>

Next == \E t \in Threads :
            Enter(t) \/ Body(t) \/ Resolve(t) \/ Unlock(t) \/ Reenter(t)

\* the same threads, also calling watch and forget on the null pointer
NextNull == \E t \in Threads :
                \/ EnterNull(t) \/ ReturnNull(t)
                \/ Enter(t) \/ Body(t) \/ Resolve(t) \/ Unlock(t)
                \/ Reenter(t)

Spec == Init /\ [][Next]_vars

\* ----------------------------------------------- failures inside tracer()
\* watch / restart calls of other threads that have been made and not yet
\* applied
Pending(t) ==
    Cardinality({u \in Threads \ {t} :
                    /\ pc[u] \in {"waiting", "cs"}
                    /\ cur[u].api \in {"watch", "restart"}})

\* A thread outside the tracer calls a wrapper and reaches first.lock().
Call(t) ==
    /\ pc[t] = "idle"
    /\ \E c \in Calls(t) : \E o \in LocalObjs(c) :
         /\ (c.api \in {"watch", "restart"}) => id + Pending(t) < MaxId
         /\ cur' = [cur EXCEPT ![t] = c]
         /\ obj' = [obj EXCEPT ![t] = o]
    /\ pc' = [pc EXCEPT ![t] = "waiting"]
    /\ raised' = [raised EXCEPT ![t] = "none"]
    /\ UNCHANGED <<map, stats, id, timestamp_id, first, recursive, nested,
                   outstanding, highwater, pair, ret, once, others>>

\* first.lock() returns; try_lock() either takes the guard or finds
\* `recursive` set and makes tracer() return at once.
Acquire(t) ==
    /\ pc[t] = "waiting"
    /\ CanLock(t)
    /\ LET r == try_lock(first, recursive, t)
       IN  /\ first' = r.first
           /\ recursive' = r.recursive
           /\ IF r.ok
              THEN /\ pc' = [pc EXCEPT ![t] = "cs"]
                   /\ once' = TRUE
                   /\ UNCHANGED <<cur, obj>>
              ELSE /\ pc' = [pc EXCEPT ![t] = "idle"]
                   /\ cur' = [cur EXCEPT ![t] = NoCall]
                   /\ obj' = [obj EXCEPT ![t] = NoObj]
                   /\ UNCHANGED once
    /\ UNCHANGED <<map, stats, id, timestamp_id, nested, outstanding,
                   highwater, pair, ret, raised, others>>

\* The first call to pass try_lock() runs settings(); symbol( url ) gives
\* "????" and fail() throws std::runtime_error.  Nothing between the throw
\* and the caller of the wrapper catches it, and mutex->unlock() is skipped.
SettingsFail(t) ==
    /\ pc[t] = "waiting"
    /\ CanLock(t)
    /\ ~once
    /\ LET r == try_lock(first, recursive, t)
       IN  /\ r.ok
           /\ first' = r.first
           /\ recursive' = r.recursive
    /\ once' = TRUE
    /\ raised' = [raised EXCEPT ![t] = cur[t].api]
    /\ pc' = [pc EXCEPT ![t] = "idle"]
    /\ cur' = [cur EXCEPT ![t] = NoCall]
    /\ obj' = [obj EXCEPT ![t] = NoObj]
    /\ UNCHANGED <<map, stats, id, timestamp_id, nested, outstanding,
                   highwater, pair, ret, others>>

\* the registry when `new leak` or `new callstack` of the allocation branch
\* ends in badalloc(): map[ptr] may already have inserted an entry with
\* null pointers, and the leak may already have been constructed
WatchInterrupted(r, ptr, inserted, constructed) ==
    [r EXCEPT !.map = IF inserted /\ ~Found(r.map, ptr)
                      THEN [r.map EXCEPT ![ptr] = [present |-> TRUE,
                                                   first |-> NullLeak,
                                                   second |-> FALSE]]
                      ELSE r.map,
              !.id  = IF constructed THEN create_id(r.id) ELSE r.id]

\* badalloc() throws std::bad_alloc out of the allocation branch, through
\* tracer() and watch() to the caller; mutex->unlock() is skipped.
Throw(t) ==
    /\ pc[t] = "cs"
    /\ cur[t].api = "watch"
    /\ \E inserted \in BOOLEAN : \E constructed \in BOOLEAN :
         LET r == WatchInterrupted(Registry, cur[t].ptr, inserted, constructed)
         IN  /\ map' = r.map
             /\ id' = r.id
    /\ raised' = [raised EXCEPT ![t] = cur[t].api]
    /\ pc' = [pc EXCEPT ![t] = "idle"]
    /\ cur' = [cur EXCEPT ![t] = NoCall]
    /\ obj' = [obj EXCEPT ![t] = NoObj]
    /\ UNCHANGED <<stats, timestamp_id, first, recursive, nested, outstanding,
                   highwater, pair, ret, once, others>>

NextFail == \E t \in Threads :
                \/ Call(t) \/ Acquire(t) \/ SettingsFail(t) \/ Body(t)
                \/ Throw(t) \/ Resolve(t) \/ Unlock(t)

\* Fair scheduling: a thread inside the tracer keeps running, and a thread
\* blocked in first.lock() gets the mutex if it is free again and again.
\* Calls and failures are under no obligation to happen.
Fairness ==
    \A t \in Threads :
        /\ WF_vars(Body(t)) /\ WF_vars(Resolve(t)) /\ WF_vars(Unlock(t))
        /\ SF_vars(Acquire(t))

SpecFail == Init /\ [][NextFail]_vars /\ Fairness

\* ------------------------------------------------ teardown of the registry
Alive == process \in {"running", "exiting"}

\* what the build settings and the report under study keep
reportVars == <<config, tally, score, treeVars, mergeVars, webVars,
                viewVars>>

\* watch / forget reach `if( !mutex )`: a null mutex makes tracer() return
\* at once, else the call goes on to `mutex->try_lock()`.
CheckMutex(t) ==
    /\ Alive
    /\ pc[t] = "idle"
    /\ \E c \in {watch(p, s) : p \in Addrs, s \in Sizes}
               \cup {forget(p) : p \in Addrs} :
         /\ (c.api = "watch") => id < MaxId
         /\ IF mutex
            THEN /\ pc' = [pc EXCEPT ![t] = "checked"]
                 /\ cur' = [cur EXCEPT ![t] = c]
            ELSE UNCHANGED <<pc, cur>>
    /\ UNCHANGED <<map, stats, id, timestamp_id, first, recursive, obj,
                   nested, outstanding, highwater, pair, ret, once, raised,
                   others>>

\* `mutex->try_lock()`.  When the destructor has stored mutex = 0 since the
\* check, the second read of the unsynchronised pointer is a null pointer
\* (the call crashes) or the value read before (the call locks m, whose
\* destructor is running).
TryLock(t) ==
    /\ Alive
    /\ pc[t] = "checked"
    /\ \/ /\ CanLock(t)
          /\ LET r == try_lock(first, recursive, t)
             IN  /\ first' = r.first
                 /\ recursive' = r.recursive
                 /\ IF r.ok
                    THEN /\ pc' = [pc EXCEPT ![t] = "cs"]
                         /\ once' = TRUE
                         /\ UNCHANGED cur
                    ELSE /\ pc' = [pc EXCEPT ![t] = "idle"]
                         /\ cur' = [cur EXCEPT ![t] = NoCall]
                         /\ UNCHANGED once
          /\ deref' = (deref \/ ~mutex)
          /\ UNCHANGED process
       \/ /\ ~mutex
          /\ process' = "crashed"
          /\ deref' = TRUE
          /\ UNCHANGED <<first, recursive, pc, cur, once>>
    /\ UNCHANGED <<map, stats, id, timestamp_id, obj, nested, outstanding,
                   highwater, pair, ret, raised, reportVars, mutex, exitLive,
                   exitReports>>

\* the branch of tracer() selected by size, run by a thread of a process
\* that has not ended
BodyAlive(t) ==
    /\ Alive
    /\ Body(t)

\* `mutex->unlock(); return ptr`, with the same two outcomes when mutex
\* has been set to 0 meanwhile
UnlockMutex(t) ==
    /\ Alive
    /\ pc[t] = "done"
    /\ \/ /\ recursive' = FALSE
          /\ first' = firstUnlock(first)
          /\ pc' = [pc EXCEPT ![t] = "idle"]
          /\ cur' = [cur EXCEPT ![t] = NoCall]
          /\ ret' = [ret EXCEPT ![t] = NoRet]
          /\ deref' = (deref \/ ~mutex)
          /\ UNCHANGED process
       \/ /\ ~mutex
          /\ process' = "crashed"
          /\ deref' = TRUE
          /\ UNCHANGED <<first, recursive, pc, cur, ret>>
    /\ UNCHANGED <<map, stats, id, timestamp_id, obj, nested, outstanding,
                   highwater, pair, once, raised, reportVars, mutex, exitLive,
                   exitReports>>

\* exit() runs the destructor of the static m: ~custom_mutex stores
\* mutex = 0 and ~container starts (mutex = 0 again, then the exit report).
\* Neither takes the lock, whatever the other threads are doing.
Teardown ==
    /\ process = "running"
    /\ process' = "exiting"
    /\ mutex' = FALSE
    /\ exitLive' = LiveRecords(map)
    /\ UNCHANGED <<tracerVars, reportVars, deref, exitReports>>

\* ~container: `if( kTraceyReportOnExit ) view_report( _report() )`, called
\* on the map directly, without the lock
ExitReport ==
    /\ process = "exiting"
    /\ kTraceyReportOnExit
    /\ exitReports = <<>>
    /\ exitReports' = Append(exitReports, _report(map, timestamp_id))
    /\ UNCHANGED <<tracerVars, reportVars, mutex, process, deref, exitLive>>

\* ~container: kTraceyDie( __LINE__ ) ends the process
Die ==
    /\ process = "exiting"
    /\ kTraceyReportOnExit => exitReports # <<>>
    /\ process' = "ended"
    /\ UNCHANGED <<tracerVars, reportVars, mutex, deref, exitLive,
                   exitReports>>

NextTeardown ==
    \/ \E t \in Threads :
          CheckMutex(t) \/ TryLock(t) \/ BodyAlive(t) \/ UnlockMutex(t)
    \/ Teardown
    \/ ExitReport
    \/ Die

\* the default build and the build with -DkTraceyReportOnExit=0
InitTeardown ==
    /\ InitTracer
    /\ kTraceyReportWildPointers = FALSE
    /\ kTraceyStacktraceSkipBegin = 0
    /\ kTraceyStacktraceSkipEnd = 0
    /\ kTraceyReportOnExit \in BOOLEAN
    /\ NoReport
    /\ Running


SpecTeardown == InitTeardown /\ [][NextTeardown]_vars

\* _report(): "Calc score" for the report described by tally
CalcScore ==
    /\ score = ""
    /\ score' = Score(leaks_pct(tally.n_leak, tally.size))
    /\ UNCHANGED <<tracerVars, config, tally, treeVars,
                   teardownVars, viewVars, mergeVars,
                   webVars>>

NextScore == CalcScore

SpecScore == InitScore /\ [][NextScore]_vars

\* translate when only the frames that got a symbol are entered
LabelsOfResolved(frames, all) ==
    [k \in (IF all THEN frames ELSE {}) \cup {BottomTop, TopBottom} |->
        IF k = BottomTop THEN [kind |-> "bottom-top normal tree", of |-> k]
        ELSE IF k = TopBottom
             THEN [kind |-> "top-bottom normal tree", of |-> k]
             ELSE [kind |-> "symbol", of |-> k]]

\* translate as _report() fills it: each frame of the set mapped to its
\* symbol, or to its address in text when the resolver returned another
\* number of symbols than frames, then the labels of the two branches
Labels(frames, all) ==
    [k \in frames \cup {BottomTop, TopBottom} |->
        IF k = BottomTop THEN [kind |-> "bottom-top normal tree", of |-> k]
        ELSE IF k = TopBottom
             THEN [kind |-> "top-bottom normal tree", of |-> k]
             ELSE [kind |-> IF all THEN "symbol" ELSE "address", of |-> k]]

\* tmap.find( key )->second; find returns end() for a key tmap lacks, and
\* what is read through end() is not a label of the map
find(tmap, key) ==
    IF key \in DOMAIN tmap THEN tmap[key] ELSE [kind |-> "end()", of |-> key]

\* a line of the report file that is not a line of a tree
Text(kind) == [kind |-> kind, path |-> <<>>]

\* collect_leaks: *wasted, summed over the tuples pushed to the list
RECURSIVE Wasted(_, _)
Wasted(list, n) ==
    IF n > Len(list) THEN 0 ELSE list[n].lk + Wasted(list, n + 1)

\* the summary line: n_leak = filtered.size() leaks found, wasted bytes
Summary(list) ==
    [kind |-> "leaks found", path |-> <<>>, n_leak |-> Len(list),
     wasted |-> Wasted(list, 1)]

\* _report(): "Header", the four kTraceyfPrintf( fp, ... ) calls
Header ==
    /\ stage = "filtered"
    /\ file' = file \o <<Text("<html><body><xmp>"), Text("generated with"),
                         Text("best viewed"), Summary(filtered)>>
    /\ stage' = "header"
    /\ UNCHANGED <<tracerVars, config, tally, score,
                   filtered, translate, tree, lines, teardownVars,
                   viewVars, mergeVars,
                   webVars>>

\* _report(): "creating trees of frames"
TreesOfFrames ==
    /\ stage = "header"
    /\ \A n \in 1..Len(filtered) : ~OutOfArray(filtered[n])
    /\ tree' = CreateTrees(filtered)
    /\ stage' = "trees"
    /\ UNCHANGED <<tracerVars, config, tally, score,
                   filtered, translate, lines, file, teardownVars,
                   viewVars, mergeVars,
                   webVars>>

\* _report(): "creating trees of frames" when the loop over the frames of
\* some leak indexes outside its callstack: the read is undefined, the
\* process is killed at it ("fault") or goes on with what the read gave and
\* with a loop bound no index exceeds ("astray"); either way this report
\* is not completed
TreesFault ==
    /\ stage = "header"
    /\ \E n \in 1..Len(filtered) : OutOfArray(filtered[n])
    /\ stage' \in {"fault", "astray"}
    /\ UNCHANGED <<tracerVars, config, tally, score,
                   filtered, translate, tree, lines, file, teardownVars,
                   viewVars, mergeVars,
                   webVars>>

\* _report(): tree.recalc(), reached only when the set of frames is not
\* empty, after the frames of the set are resolved and translate is filled;
\* all: resolve_stack_trace returned one symbol per frame
Recalc ==
    /\ stage = "trees"
    /\ FrameSet(filtered) # {}
    /\ \E all \in BOOLEAN :
          /\ translate' = Labels(FrameSet(filtered), all)
          /\ file' = IF all THEN file
                     ELSE Append(file, Text("cannot resolve all frames"))
    /\ tree' = recalc(tree)
    /\ stage' = "recalc"
    /\ UNCHANGED <<tracerVars, config, tally, score,
                   filtered, lines, teardownVars,
                   viewVars, mergeVars, webVars>>

\* _report(): tree.print( translate, fp )
PrintTree ==
    /\ stage = "recalc"
    /\ lines' = print(tree, <<>>, 0)
    /\ file' = file \o [i \in 1..Len(lines') |->
                            [kind |-> "node", path |-> lines'[i].path,
                             label |-> find(translate, lines'[i].key)]]
    /\ stage' = "printed"
    /\ UNCHANGED <<tracerVars, config, tally, score,
                   filtered, translate, tree, teardownVars,
                   viewVars, mergeVars,
                   webVars>>

\* _report(): "Footer", after the trees or after `if( !set.size() )`
Footer ==
    /\ \/ stage = "printed"
       \/ stage = "trees" /\ FrameSet(filtered) = {}
    /\ file' = Append(file, Text("</xmp></body></html>"))
    /\ stage' = "closed"
    /\ UNCHANGED <<tracerVars, config, tally, score,
                   filtered, translate, tree, lines, teardownVars,
                   viewVars, mergeVars,
                   webVars>>

NextTrees == Header \/ TreesOfFrames \/ Recalc \/ PrintTree \/ Footer

SpecTrees == InitTrees /\ [][NextTrees]_vars

\* one report of one leak, in a build with any skip settings up to MaxSkip
InitPaths ==
    /\ InitTracer
    /\ kTraceyReportWildPointers = FALSE
    /\ kTraceyStacktraceSkipBegin \in 0..MaxSkip
    /\ kTraceyStacktraceSkipEnd \in 0..MaxSkip
    /\ kTraceyReportOnExit = TRUE
    /\ tally = NoTally
    /\ score = ""
    /\ \E lk \in Sizes : \E cs \in Stacks :
          filtered = <<[addr |-> 1, lk |-> lk, cs |-> cs]>>
    /\ tree = NewTree
    /\ lines = <<>>
    /\ file = <<>>
    /\ translate = NoLabels
    /\ stage = "filtered"
    /\ NoMerge
    /\ Running

NextPaths ==
    Header \/ TreesOfFrames \/ TreesFault \/ Recalc \/ PrintTree \/ Footer

SpecPaths == InitPaths /\ [][NextPaths]_vars

\* the key paths of the trees merged: up to MaxNodes keyed nodes
MergePaths == UNION {[1..n -> Frames] : n \in 1..MaxNodes}

Shapes ==
    {S \in SUBSET MergePaths :
        /\ Cardinality(S) <= MaxNodes
        /\ \A q \in S : Len(q) > 1 => SubSeq(q, 1, Len(q) - 1) \in S}

Trees == UNION {[S \cup {<<>>} -> Sizes] : S \in Shapes}

\* two trees, before one is merged into the other
InitMerge ==
    /\ InitTracer
    /\ kTraceyReportWildPointers = FALSE
    /\ Defaults
    /\ tally = NoTally
    /\ score = ""
    /\ NoTrees
    /\ Running
    /\ lhs \in Trees
    /\ rhs \in Trees
    /\ merged = NewTree
    /\ merging = "operands"

\* lhs += rhs / lhs.merge( rhs ) with two distinct objects
Merge ==
    /\ merging = "operands"
    /\ merged' = merge(lhs, rhs)
    /\ merging' = "merged"
    /\ UNCHANGED <<tracerVars, config, tally, score, treeVars, teardownVars,
                   viewVars,
                   lhs, rhs, webVars>>

\* lhs += lhs: `if( this != &t )` skips the body
MergeSelf ==
    /\ merging = "operands"
    /\ rhs = lhs
    /\ merged' = lhs
    /\ merging' = "self"
    /\ UNCHANGED <<tracerVars, config, tally, score, treeVars, teardownVars,
                   viewVars,
                   lhs, rhs, webVars>>

NextMerge == Merge \/ MergeSelf

SpecMerge == InitMerge /\ [][NextMerge]_vars

\* the program built with wild pointer reporting, null calls included
SpecNull == InitWild /\ [][NextNull]_vars

\* webmain: a request has been accepted and parsed; req( c, b, url )
WebAccept ==
    /\ once
    /\ webpc = "listening"
    /\ \E url \in {"/report", "/"} :
          webpc' = IF url = "/report" THEN "report" ELSE "usage"
    /\ UNCHANGED <<tracerVars, config, tally, score, treeVars, teardownVars,
                   viewVars,
                   mergeVars, seen>>

\* req: tracey::view( tracey::report() ), each of the two a tracer call
\* that takes the mutex (or returns at once when try_lock rejects it)
WebLock ==
    /\ webpc \in {"report", "view"}
    /\ CanLock(WebThread)
    /\ LET r == try_lock(first, recursive, WebThread)
       IN  /\ first' = r.first
           /\ recursive' = r.recursive
           /\ webpc' = IF r.ok
                       THEN (IF webpc = "report" THEN "reporting"
                                                 ELSE "viewing")
                       ELSE (IF webpc = "report" THEN "view" ELSE "usage")
    /\ UNCHANGED <<map, stats, id, timestamp_id, pc, cur, obj, nested,
                   outstanding, highwater, pair, ret, once, raised, config,
                   tally, score, treeVars, teardownVars,
                   viewVars, mergeVars, seen>>

\* the report or view branch is done: mutex->unlock()
WebUnlock ==
    /\ webpc \in {"reporting", "viewing"}
    /\ recursive' = FALSE
    /\ first' = firstUnlock(first)
    /\ webpc' = IF webpc = "reporting" THEN "view" ELSE "usage"
    /\ UNCHANGED <<map, stats, id, timestamp_id, pc, cur, obj, nested,
                   outstanding, highwater, pair, ret, once, raised, config,
                   tally, score, treeVars, teardownVars,
                   viewVars, mergeVars, seen>>

\* req: one of stats.peak, stats.usage, stats.leaks is read for {USAGE};
\* the three are arguments of one call, read in no fixed order
WebRead ==
    /\ webpc = "usage"
    /\ \E f \in {"peak", "usage", "leaks"} :
          /\ seen[f] = <<>>
          /\ seen' = [seen EXCEPT ![f] = <<stats[f]>>]
    /\ UNCHANGED <<tracerVars, config, tally, score, treeVars, teardownVars,
                   viewVars,
                   mergeVars, webpc>>

\* req: the response is written to the socket
WebRespond ==
    /\ webpc = "usage"
    /\ \A f \in {"peak", "usage", "leaks"} : seen[f] # <<>>
    /\ webpc' = "listening"
    /\ seen' = NotRead
    /\ UNCHANGED <<tracerVars, config, tally, score, treeVars, teardownVars,
                   viewVars,
                   mergeVars>>

\* the host threads and the web server thread
NextWeb ==
    \/ Next
    \/ WebAccept \/ WebLock \/ WebUnlock \/ WebRead \/ WebRespond

SpecWeb == Init /\ [][NextWeb]_vars

\* the same program built with wild pointer reporting
SpecWild == InitWild /\ [][Next]_vars

\* ------------------------------------------------- sizes a caller can pass
\* what tracer() finds behind ptr when watch( p, s ) is dispatched on a
\* sentinel s: the control branch reads the caller's memory as an int
SizedObjs(c) ==
    IF c.size = SizeMax - 1 THEN {[NoObj EXCEPT !.code = k] : k \in 0..2}
    ELSE {NoObj}

\* watch( p, s ) with any size_t s, and forget( p ), up to try_lock()
EnterSized(t) ==
    /\ pc[t] = "idle"
    /\ CanLock(t)
    /\ \E c \in {watch(p, s) : p \in Addrs, s \in AnySize}
               \cup {forget(p) : p \in Addrs} : \E o \in SizedObjs(c) :
         /\ c.api = "watch" => id < MaxId
         /\ LET r == try_lock(first, recursive, t)
            IN  /\ first' = r.first
                /\ recursive' = r.recursive
                /\ IF r.ok
                   THEN /\ pc' = [pc EXCEPT ![t] = "cs"]
                        /\ cur' = [cur EXCEPT ![t] = c]
                        /\ obj' = [obj EXCEPT ![t] = o]
                        /\ once' = TRUE
                   ELSE UNCHANGED <<pc, cur, obj, once>>
    /\ UNCHANGED <<map, stats, id, timestamp_id, nested, outstanding,
                   highwater, pair, ret, raised, others>>

NextSized == \E t \in Threads : EnterSized(t) \/ Body(t) \/ Unlock(t)

SpecSized == Init /\ [][NextSized]_vars

\* ----------------------------------------------------------------- view()
\* view(): `tracey::string rep = report;`.  The copy is made before tracer()
\* is called; whether it allocates is up to the library (a shared or short
\* string does not).  When it does, the buffer comes from the hooked
\* operator new, which is a complete top-level watch( malloc( n ), n ).
ViewCopy(t) ==
    /\ pc[t] = "idle"
    /\ rep[t].at = "none"
    /\ \/ /\ rep' = [rep EXCEPT ![t] = [at |-> "copied", buf |-> NullPtr]]
          /\ UNCHANGED tracerVars
       \/ /\ CanLock(t)
          /\ id < MaxId
          /\ \E q \in Addrs \ LiveRecords(map) : \E n \in Sizes \ {0} :
                LET c == watch(q, n)
                    l == try_lock(first, recursive, t)
                    r == TracerBody(Registry, c.ptr, c.size, NoObj)
                IN  /\ l.ok
                    /\ map' = r.reg.map
                    /\ stats' = r.reg.stats
                    /\ id' = r.reg.id
                    /\ timestamp_id' = r.reg.timestamp_id
                    /\ outstanding' = NextOutstanding(c)
                    /\ highwater' = NextHighwater(c, stats')
                    /\ pair' = NextPair(c)
                    /\ rep' = [rep EXCEPT ![t] = [at |-> "copied", buf |-> q]]
          /\ once' = TRUE
          /\ UNCHANGED <<first, recursive, pc, cur, obj, nested, ret, raised>>
    /\ UNCHANGED <<config, tally, score, treeVars, teardownVars, mergeVars,
                   webVars>>

\* view(): tracer( &rep, (~0) - 4 ) up to try_lock()
ViewEnter(t) ==
    /\ pc[t] = "idle"
    /\ rep[t].at = "copied"
    /\ CanLock(t)
    /\ LET l == try_lock(first, recursive, t)
       IN  /\ first' = l.first
           /\ recursive' = l.recursive
           /\ IF l.ok
              THEN /\ pc' = [pc EXCEPT ![t] = "cs"]
                   /\ cur' = [cur EXCEPT ![t] = view(t)]
                   /\ once' = TRUE
              ELSE UNCHANGED <<pc, cur, once>>
    /\ rep' = [rep EXCEPT ![t].at = "viewed"]
    /\ UNCHANGED <<map, stats, id, timestamp_id, obj, nested, outstanding,
                   highwater, pair, ret, raised, config, tally, score,
                   treeVars, teardownVars, mergeVars, webVars>>

\* view() returns: rep is destroyed, and a buffer of its own goes through
\* the hooked operator delete, a complete top-level forget( buf )
ViewDestroy(t) ==
    /\ pc[t] = "idle"
    /\ rep[t].at = "viewed"
    /\ IF rep[t].buf = NullPtr
       THEN UNCHANGED tracerVars
       ELSE /\ CanLock(t)
            /\ LET c == forget(rep[t].buf)
                   l == try_lock(first, recursive, t)
                   r == TracerBody(Registry, c.ptr, c.size, NoObj)
               IN  /\ l.ok
                   /\ map' = r.reg.map
                   /\ stats' = r.reg.stats
                   /\ id' = r.reg.id
                   /\ timestamp_id' = r.reg.timestamp_id
                   /\ outstanding' = NextOutstanding(c)
                   /\ highwater' = NextHighwater(c, stats')
                   /\ pair' = NextPair(c)
            /\ UNCHANGED <<first, recursive, pc, cur, obj, nested, ret, once,
                           raised>>
    /\ rep' = [rep EXCEPT ![t] = NoRep]
    /\ UNCHANGED <<config, tally, score, treeVars, teardownVars, mergeVars,
                   webVars>>

\* the host threads, view() among their calls
NextView ==
    \E t \in Threads :
        \/ rep[t].at = "none" /\ Enter(t)
        \/ Body(t) \/ Resolve(t) \/ Unlock(t) \/ Reenter(t)
        \/ ViewCopy(t) \/ ViewEnter(t) \/ ViewDestroy(t)

SpecView == Init /\ [][NextView]_vars

\* ------------------------------------------------------------ properties
InTracer(t) == pc[t] \in {"cs", "resolving", "done"}

\* a thread has just run the body of the call c
Applied(t, api) == pc[t] = "cs" /\ pc'[t] = "done" /\ cur[t].api = api

RECURSIVE SumOutstanding(_)
SumOutstanding(S) ==
    IF S = {} THEN 0
    ELSE LET a == CHOOSE x \in S : TRUE
         IN  outstanding[a][1] + SumOutstanding(S \ {a})

\* C1: when summary() is about to return, the stats_t it returns holds the
\* registry's current counters {leaks, usage, peak}.
C1_SummaryReturnsCounters ==
    \A t \in Threads :
        (pc[t] = "done" /\ cur[t].api = "summary") => obj[t].st = stats

\* C2: whenever no thread is inside the critical section, live_count is the
\* number of live records in the map and live_bytes is the sum of their sizes.
C2_CountersMatchRecords ==
    (\A t \in Threads : ~InTracer(t)) =>
        /\ stats.leaks = Cardinality(LiveRecords(map))
        /\ stats.usage = SumSizes(map, LiveRecords(map))

\* C3: a watch(p, s2) applied while p has a live record of size s1 leaves
\* live_count unchanged and changes live_bytes by s2 - s1.
C3_RewatchReleasesPrior ==
    [][\A t \in Threads :
         (Applied(t, "watch") /\ cur[t].ptr \in LiveRecords(map)) =>
            /\ stats'.leaks = stats.leaks
            /\ stats'.usage = stats.usage + cur[t].size
                                - map[cur[t].ptr].first.size]_vars

\* C4 (as stated): after forget(p) of an address with a live record the map
\* has no entry of any kind for p.
C4_ForgetErasesEntry ==
    [][\A t \in Threads :
         (Applied(t, "forget") /\ cur[t].ptr \in LiveRecords(map)) =>
            ~map'[cur[t].ptr].present]_vars

\* C4 (amended): after forget(p) of an address with a live record the map
\* keeps its entry for p, with the leak and the callstack pointer both null,
\* so p has no live record; the counters drop by that record.
C4_ForgetNullsEntry ==
    [][\A t \in Threads :
         (Applied(t, "forget") /\ cur[t].ptr \in LiveRecords(map)) =>
            /\ map'[cur[t].ptr] = [present |-> TRUE, first |-> NullLeak,
                                   second |-> FALSE]
            /\ cur[t].ptr \notin LiveRecords(map')
            /\ stats'.leaks = stats.leaks - 1]_vars

C4_Witness ==
    \E t \in Threads :
        /\ pc[t] = "done" /\ cur[t].api = "forget"
        /\ map[cur[t].ptr].present /\ map[cur[t].ptr].first.id = 0
        /\ outstanding[cur[t].ptr] = <<>>
        /\ pair.stage = "paired"

\* C5: peak_bytes >= live_bytes in every reachable state.
C5_PeakAtLeastLive == stats.peak >= stats.usage

C5_Witness ==
    \E t \in Threads :
        /\ pc[t] = "done" /\ cur[t].api = "forget"
        /\ stats.usage > 0 /\ stats.peak > stats.usage

C7_RestartZeroes ==
    \A t \in Threads :
        (pc[t] = "done" /\ cur[t].api = "restart") =>
            /\ \A a \in Addrs : ~map[a].present
            /\ stats.leaks = 0 /\ stats.usage = 0 /\ stats.peak = 0

C7_Witness ==
    \E t \in Threads :
        /\ pc[t] = "done" /\ cur[t].api = "restart"
        /\ id >= 3 /\ timestamp_id = id

\* C8: a report lists exactly the addresses watched since the last restart()
\* and not forgotten since, and its wasted bytes are the sum of the sizes
\* they were last watched with.
C8_ReportListsOutstanding ==
    \A t \in Threads :
        (pc[t] = "done" /\ cur[t].api = "report") =>
            LET S == {a \in Addrs : outstanding[a] # <<>>}
            IN  /\ obj[t].log.addrs = S
                /\ obj[t].log.n_leak = Cardinality(S)
                /\ obj[t].log.wasted = SumOutstanding(S)

C8_Witness ==
    \E t \in Threads :
        /\ pc[t] = "done" /\ cur[t].api = "report"
        /\ timestamp_id > 1
        /\ obj[t].log.n_leak = 1 /\ obj[t].log.wasted = MaxSize
        /\ \E a \in Addrs : ~map[a].present

\* C9: a watch or forget issued by a thread that is already inside the
\* tracer returns without changing the map, the counters, the id counter or
\* the reset watermark (and leaves the guard as it was).
C9_ReentrantIgnored ==
    [][\A t \in Threads :
         (~nested[t] /\ nested'[t]) =>
            /\ UNCHANGED <<map, stats, id, timestamp_id>>
            /\ UNCHANGED <<first, recursive, pc>>]_vars

C9_Witness ==
    \E t \in Threads :
        /\ nested[t] /\ pc[t] = "cs" /\ cur[t].api = "watch"
        /\ stats.leaks > 0

\* C10: at most one thread is between a successful try_lock and its unlock,
\* that thread owns the mutex and the reentrancy flag is set for the whole
\* interval, and the map, the counters, the id counter and the watermark
\* change only in a step of that thread.
MutexInv ==
    /\ Cardinality({t \in Threads : InTracer(t)}) <= 1
    /\ \A t \in Threads : InTracer(t) => (recursive /\ first.owner = t)

C10_OneCriticalSection ==
    [][/\ MutexInv'
       /\ (<<map, stats, id, timestamp_id>>' # <<map, stats, id, timestamp_id>>)
            => \E t \in Threads :
                 /\ InTracer(t) /\ recursive /\ first.owner = t
                 /\ pc'[t] = "done"]_vars

C10_Witness ==
    \E t \in Threads, u \in Threads :
        /\ t # u
        /\ pc[t] = "done" /\ cur[t].api = "watch" /\ pc[u] = "idle"
        /\ stats.leaks > 1

C15_WildForgetDiagnosed ==
    [][\A t \in Threads :
         (Applied(t, "forget") /\ cur[t].ptr \notin LiveRecords(map)) =>
            (ret'[t].wild = 1 /\ stats' = stats)]_vars

\* C16: when forget(p) finds no record for p, the pointer forget returns
\* (the one free(forget(p)) hands to the underlying free) is null.
C16_ForgetReturnsNormalized ==
    \A t \in Threads :
        (pc[t] = "done" /\ cur[t].api = "forget" /\ ret[t].ptr = NullPtr) =>
            ret[t].value = NullPtr

\* C19: the score follows first-match buckets on pct: 0 "perfect!",
\* (0, 1.25] "excellent", (1.25, 2.5] "good", (2.5, 5] "poor",
\* (5, 10] "mediocre", above 10 "lame"; it is "perfect!" exactly when the
\* report has no leak.
C19_ScoreBuckets ==
    score # "" =>
        LET n == tally.n_leak
            z == tally.size
            \* pct <= k / 100, with pct = 100 * n / z (0 for an empty map)
            Le(k) == IF z = 0 THEN TRUE ELSE 100 * n * 100 <= k * z
        IN  /\ score = (IF Le(0) THEN "perfect!"
                        ELSE IF Le(125) THEN "excellent"
                        ELSE IF Le(250) THEN "good"
                        ELSE IF Le(500) THEN "poor"
                        ELSE IF Le(1000) THEN "mediocre"
                        ELSE "lame")
            /\ (score = "perfect!") <=> (n = 0)

\* a report exactly on the 1.25 % boundary has been scored
C19_Witness ==
    /\ score = "excellent"
    /\ tally.n_leak = 1 /\ tally.size = MaxEntries

\* C20: the percentage behind the score is 100 * leaks / (number of watch
\* calls ever observed).  Without any restart (timestamp_id = 0) create_id()
\* has run once per applied watch, so id is that number of watch calls.
C20_PctOverAllWatches ==
    \A t \in Threads :
        (pc[t] = "done" /\ cur[t].api = "report" /\ timestamp_id = 0
            /\ id > 0) =>
            obj[t].log.pct.num * id = 100 * obj[t].log.n_leak * obj[t].log.pct.den

\* sum of the sizes of the leaks that were inserted into the trees (the
\* leaks with at least one frame)
RECURSIVE SumInserted(_, _)
SumInserted(list, n) ==
    IF n > Len(list) THEN 0
    ELSE (IF Len(list[n].cs) # 0 THEN list[n].lk ELSE 0)
         + SumInserted(list, n + 1)

RECURSIVE SumChildren(_, _)
SumChildren(tr, S) ==
    IF S = {} THEN 0
    ELSE LET q == CHOOSE x \in S : TRUE
         IN  tr[q] + SumChildren(tr, S \ {q})

\* C17: in every report, for each of the two trees, the values of the direct
\* children of the tree's synthetic root add up to the sum of the sizes of
\* the leaks inserted into it.
C17_RootChildrenSumToLeaks ==
    stage \in {"recalc", "printed", "closed"} =>
        \A root \in {BottomTop, TopBottom} :
            SumChildren(tree, Children(tree, <<root>>))
                = SumInserted(filtered, 1)

\* p comes before q in a walk that visits a node before its children and
\* the children by ascending key
RECURSIVE Before(_, _)
Before(p, q) ==
    IF p = <<>> THEN q # <<>>
    ELSE IF q = <<>> THEN FALSE
    ELSE IF Head(p) # Head(q) THEN Head(p) < Head(q)
    ELSE Before(Tail(p), Tail(q))

C12_NoCallWaitsForever ==
    \A t \in Threads : (pc[t] = "waiting") ~> (pc[t] = "idle")

\* C13: no failure inside the tracer reaches the caller of watch / forget:
\* these calls never end by an exception.
C13_NoFailurePropagates ==
    \A t \in Threads : raised[t] \notin {"watch", "forget"}

\* C14: a watch / forget that runs after or concurrently with the
\* teardown of the registry is a silent no-op: once the destructor has
\* begun, no step changes the registry and none uses the destroyed mutex or
\* map.
C14_TeardownCallsAreNoOps ==
    [][process = "exiting" =>
          (UNCHANGED <<map, stats, id, timestamp_id>> /\ ~deref')]_vars

\* the lines of the report file written by tree.print
NodeLines == {i \in 1..Len(file) : file[i].kind = "node"}

\* the lines of the branch under the root key `root`
BranchLines(root) == {i \in NodeLines : Head(file[i].path) = root}

\* C21: in every report that contains trees, the sections of the file come
\* in the order banner, viewer hint, summary line, all lines of the
\* bottom-up tree, all lines of the top-down tree, closing envelope.
C21_SectionOrder ==
    (stage = "closed" /\ NodeLines # {}) =>
        /\ file[1].kind = "<html><body><xmp>"
        /\ file[2].kind = "generated with"
        /\ file[3].kind = "best viewed"
        /\ file[4].kind = "leaks found"
        /\ NodeLines = 5..(Len(file) - 1)
        /\ \A i \in BranchLines(BottomTop) :
              \A j \in BranchLines(TopBottom) : i < j
        /\ file[Len(file)].kind = "</xmp></body></html>"

\* C29: print emits exactly one line per node of the tree, indented by one
\* tab per depth level, and the bracketed number on the line of a node is
\* the number of children of that node.
C29_LinePerNodeWithChildCount ==
    stage = "printed" =>
        /\ Len(lines) = Cardinality(DOMAIN tree \ {<<>>})
        /\ {lines[i].path : i \in 1..Len(lines)} = DOMAIN tree \ {<<>>}
        /\ \A i \in 1..Len(lines) :
              /\ lines[i].depth = Len(lines[i].path) - 1
              /\ lines[i].count
                    = Cardinality(Children(tree, lines[i].path))

\* C28: recalc sets the value of every node that has children to the sum
\* of the recalculated values of its children, leaves the value of every
\* childless node unchanged, and returns the new value of the node it was
\* called on.
C28_RecalcSumsChildren ==
    [][(stage = "trees" /\ stage' = "recalc") =>
          /\ DOMAIN tree' = DOMAIN tree
          /\ \A p \in DOMAIN tree :
                /\ Children(tree, p) = {} => tree'[p] = tree[p]
                /\ Children(tree, p) # {} =>
                      tree'[p] = SumChildren(tree', Children(tree', p))
                /\ recalcValue(tree, p) = tree'[p]]_vars

\* a recalculated tree in which a frame node has children and the value of
\* its branch root was changed by recalc
C28_Witness ==
    /\ stage = "recalc"
    /\ \E p \in DOMAIN tree : Len(p) = 2 /\ Children(tree, p) # {}
    /\ tree[<<BottomTop>>] # CreateTrees(filtered)[<<BottomTop>>]

\* the key paths of the nodes on the way to the node with key path p
Prefixes(p) == {SubSeq(p, 1, n) : n \in 0..Len(p)}

Reverse(q) == [n \in 1..Len(q) |-> q[Len(q) + 1 - n]]

\* f[SkipBegin], ..., f[d-1-SkipEnd] of the callstack f
Kept(f) ==
    SubSeq(f, kTraceyStacktraceSkipBegin + 1,
           Len(f) - kTraceyStacktraceSkipEnd)

\* C30: for every leak with captured frames f[0..d-1], the report inserts
\* the path f[SkipBegin], ..., f[d-1-SkipEnd] under the bottom-up root and
\* the reversed path under the top-down root, and nothing else: once the
\* frames of a report are walked, the trees hold exactly these paths.
C30_PathsInserted ==
    [][stage = "header" =>
          /\ stage' = "trees"
          /\ DOMAIN tree' =
                {<<>>, <<BottomTop>>, <<TopBottom>>} \cup
                UNION {Prefixes(<<BottomTop>> \o Kept(filtered[n].cs))
                       \cup Prefixes(<<TopBottom>>
                                     \o Reverse(Kept(filtered[n].cs))) :
                       n \in 1..Len(filtered)}]_vars

\* C27: tree merge is a deep union: the result contains every path of both
\* trees, and at every key path present in both operands the value of the
\* resulting node is the sum of the values of the two operands there.
C27_MergeIsDeepUnion ==
    merging = "merged" =>
        /\ DOMAIN merged = DOMAIN lhs \cup DOMAIN rhs
        /\ \A q \in DOMAIN lhs \cap DOMAIN rhs : merged[q] = lhs[q] + rhs[q]

\* C26: in every reachable state the peak of the byte counter equals the
\* highest value the byte counter has taken since the most recent restart
\* (since the start when there was none).
C26_PeakIsHighwater == stats.peak = highwater

\* after a restart the counter went up and came down again
C26_Witness == timestamp_id # 0 /\ stats.peak > stats.usage

\* C22: watch( null, s ) for every s and forget( null ) are no-ops: the call
\* returns without taking the lock, leaves the map, the counters, the id
\* counter and the watermark as they are, and prints no diagnostic.
C22_NullCallsAreNoOps ==
    [][\A t \in Threads :
          /\ (pc[t] = "idle" /\ pc'[t] # "idle" /\ cur'[t].ptr = NullPtr) =>
                /\ pc'[t] = "returned"
                /\ UNCHANGED <<map, stats, id, timestamp_id, first, recursive>>
                /\ ret'[t].wild = 0
          /\ (pc[t] = "returned" /\ pc'[t] # "returned") =>
                /\ pc'[t] = "idle"
                /\ UNCHANGED <<map, stats, id, timestamp_id, first,
                               recursive>>]_vars

\* forget( null ) has returned while a record is live and another thread
\* holds the lock
C22_Witness ==
    \E t \in Threads :
        /\ pc[t] = "returned" /\ cur[t].api = "forget"
        /\ stats.leaks > 0
        /\ first.owner \notin {None, t}

\* C23: record ids are unique and strictly increasing in the order in which
\* the mutex serializes the insertions, across all threads: a new record
\* gets an id above every id handed out before.  The watermark of a restart
\* is above the id of every record inserted before it and below the id of
\* every record inserted after it.
C23_IdsIncreaseAcrossWatermark ==
    [][/\ id' >= id
       /\ \A a \in LiveRecords(map') :
             (a \notin LiveRecords(map)
                \/ map'[a].first.id # map[a].first.id) =>
                 (map'[a].first.id = id' /\ id' > id)
       /\ timestamp_id' # timestamp_id =>
             /\ timestamp_id' = id' /\ id' > id
             /\ \A a \in LiveRecords(map) :
                   map[a].first.id < timestamp_id'
       /\ \A a \in LiveRecords(map') :
             /\ timestamp_id' < map'[a].first.id
             /\ map'[a].first.id <= id'
             /\ \A b \in LiveRecords(map') \ {a} :
                   map'[b].first.id # map'[a].first.id]_vars

\* two records inserted after a restart that had a record before it
C23_Witness ==
    /\ timestamp_id = 2
    /\ \E a \in LiveRecords(map) : map[a].first.id = 3

\* C24: when kTraceyReportOnExit is on, the teardown of the registry at
\* process exit produces exactly one final report, built from the records
\* live at that moment; when it is off, the teardown produces no report.
C24_OneExitReport ==
    (process \in {"ended", "crashed"} /\ ~mutex) =>
        IF kTraceyReportOnExit
        THEN /\ Len(exitReports) = 1
             /\ exitReports[1].addrs = exitLive
        ELSE exitReports = <<>>

\* C25: the web server thread reads the counters only through the
\* lock-acquiring operations: whenever it reads a field of stats it holds
\* the mutex, so no other thread is inside a mutation.
C25_WebReadsUnderLock ==
    [][seen' # seen /\ seen' # NotRead =>
          /\ first.owner = WebThread
          /\ \A t \in Threads : pc[t] # "cs"]_vars

HasFrames(t) == Len(t.cs) # 0

\* the sizes of the leaks of list at the positions in S, added up
RECURSIVE SumSizeOfLeaks(_, _)
SumSizeOfLeaks(list, S) ==
    IF S = {} THEN 0
    ELSE LET n == CHOOSE x \in S : TRUE
         IN  list[n].lk + SumSizeOfLeaks(list, S \ {n})

\* C31: a leak whose captured depth is zero adds no node to either tree and
\* no address to the frame set (trees and set are those of the other leaks
\* alone), and is still counted in the leak count and the wasted bytes of
\* the summary line.
C31_DepthZeroLeakOnlyCounted ==
    stage = "trees" =>
        LET deep  == SelectSeq(filtered, HasFrames)
            empty == {n \in 1..Len(filtered) : ~HasFrames(filtered[n])}
        IN  /\ tree = CreateTrees(deep)
            /\ DOMAIN tree = {<<>>, <<BottomTop>>, <<TopBottom>>} \cup
                  UNION {Prefixes(<<BottomTop>> \o deep[n].cs)
                         \cup Prefixes(<<TopBottom>> \o Reverse(deep[n].cs)) :
                         n \in 1..Len(deep)}
            /\ FrameSet(filtered) = FrameSet(deep)
            /\ file[4].n_leak = Len(deep) + Cardinality(empty)
            /\ file[4].wasted = Wasted(deep, 1)
                  + SumSizeOfLeaks(filtered, empty)

\* the trees of a report with a leak of depth zero that wastes bytes and a
\* leak with frames
C31_Witness ==
    /\ stage = "trees"
    /\ \E n \in 1..Len(filtered) :
          ~HasFrames(filtered[n]) /\ filtered[n].lk > 0
    /\ \E n \in 1..Len(filtered) : HasFrames(filtered[n])

\* C40: once the frames of a report are walked, for every leak of depth
\* d >= 1 and every setting of the skips the unsigned d - 1 - SkipEnd has not
\* wrapped, every index read (start + i and end - i) lies in 0 .. d-1, and a
\* leak with d <= SkipBegin + SkipEnd has had no frame read.
C40_FrameIndicesInRange ==
    stage \in {"trees", "fault", "astray"} =>
        \A n \in 1..Len(filtered) :
            LET t == filtered[n]
                d == Len(t.cs)
            IN  d >= 1 =>
                  /\ End(t) = d - 1 - kTraceyStacktraceSkipEnd
                  /\ ReadIndices(t) \subseteq 0..(d - 1)
                  /\ d <= kTraceyStacktraceSkipBegin
                            + kTraceyStacktraceSkipEnd
                        => ReadIndices(t) = {}

\* C39: when the report has printed the tree, every key present in the
\* tree (the keys of the two branches and every frame inserted) has an entry
\* in the label map, whether or not the resolver returned one symbol per
\* frame, and no printed line came from a lookup of a missing key.
C39_EveryKeyHasLabel ==
    stage = "printed" =>
        /\ \A q \in DOMAIN tree \ {<<>>} : q[Len(q)] \in DOMAIN translate
        /\ \A i \in NodeLines : file[i].label.kind # "end()"

\* a printed tree with frames whose resolver returned too few symbols
C39_Witness ==
    /\ stage = "printed"
    /\ \E i \in NodeLines : file[i].label.kind = "address"
    /\ \E i \in 1..Len(file) : file[i].kind = "cannot resolve all frames"

\* C38: after recalc in a report, the aggregate under the bottom-up root
\* equals the aggregate under the top-down root, for every set of leaks.
C38_BranchAggregatesEqual ==
    stage \in {"recalc", "printed"} =>
        tree[<<BottomTop>>] = tree[<<TopBottom>>]

\* C32: try_lock rejects a call only when the calling thread itself is
\* inside the tracer critical section: a thread for which first.lock()
\* returns and that is not inside the section finds `recursive` clear, so a
\* call is never discarded as reentrant on account of another thread or of
\* an earlier call.
C32_RejectsOnlyOwnReentry ==
    \A t \in Threads :
        (CanLock(t) /\ ~try_lock(first, recursive, t).ok) => InTracer(t)

\* C33: lock balance.  Every call that succeeded in try_lock() has unlocked
\* by the time it has left tracer(), on every path: whenever no thread is
\* executing inside tracer() the `recursive` flag is false and the recursive
\* mutex is unowned; and a rejected reentrant try_lock() leaves the flag and
\* the hold count of the mutex as they were.
C33_LockBalance ==
    /\ (\A t \in Threads : pc[t] = "idle") =>
          (~recursive /\ first = [owner |-> None, count |-> 0])
    /\ \A t \in Threads :
          (CanLock(t) /\ recursive) =>
              LET r == try_lock(first, recursive, t)
              IN  ~r.ok /\ r.first = first /\ r.recursive = recursive

\* C34: report() and view() leave the registry unchanged: no step a thread
\* takes on behalf of a report() or a view() call, the allocations and frees
\* made for it through the hooked operators included, changes the records,
\* the counters, the id counter or the watermark.
C34_ReportAndViewKeepRegistry ==
    [][\A t \in Threads :
          (\/ rep'[t] # rep[t]
           \/ /\ pc'[t] # pc[t] \/ nested'[t] # nested[t]
              /\ {cur[t].api, cur'[t].api} \cap {"report", "view"} # {})
          => UNCHANGED <<map, stats, id, timestamp_id>>]_vars

\* C35: at any point with no thread inside the critical section, the leak
\* count and the wasted bytes a report would compute (collect_leaks) equal
\* the counters stats.leaks and stats.usage, for every history of watch,
\* forget and restart.
C35_ReportAgreesWithCounters ==
    (\A t \in Threads : ~InTracer(t)) =>
        LET log == collect_leaks(map, timestamp_id)
        IN  log.n_leak = stats.leaks /\ log.wasted = stats.usage

\* C36: stats.leaks and stats.usage never underflow.  After any sequence of
\* watch, forget and restart, forgetting the same address twice, forgetting
\* a never-watched address and forgetting after a restart included, a
\* forget subtracts a record's size only if the record is live, and the
\* record is not live afterwards; both counters stay >= 0.
C36_CountersNeverUnderflow ==
    [][/\ stats'.leaks >= 0
       /\ stats'.usage >= 0
       /\ \A t \in Threads :
             Applied(t, "forget") =>
                 LET p == cur[t].ptr
                 IN  /\ p \notin LiveRecords(map')
                     /\ IF p \in LiveRecords(map)
                        THEN stats' = [stats EXCEPT
                                          !.leaks = @ - 1,
                                          !.usage = @ - map[p].first.size]
                        ELSE stats' = stats]_vars

\* a forget has been applied to an address that has no entry, after a
\* restart, with both counters at zero
C36_Witness ==
    \E t \in Threads :
        /\ pc[t] = "done"
        /\ cur[t].api = "forget"
        /\ ~map[cur[t].ptr].present
        /\ timestamp_id > 0
        /\ stats.leaks = 0
        /\ stats.usage = 0

\* C37: for every non-null p and every size_t s, a watch(p, s) that passes
\* try_lock() records a live allocation of size s for p and does nothing
\* else: it is never taken for a free, control, size-query, report or view
\* request.
C37_WatchAlwaysRecords ==
    [][\A t \in Threads :
          Applied(t, "watch") =>
              LET p == cur[t].ptr
                  s == cur[t].size
              IN  /\ map'[p] = [present |-> TRUE,
                                first |-> [size |-> s, id |-> id'],
                                second |-> TRUE]
                  /\ id' = create_id(id)
                  /\ \A a \in Addrs \ {p} : map'[a] = map[a]
                  /\ stats'.leaks = stats.leaks + 1
                  /\ stats'.usage = stats.usage + s
                  /\ timestamp_id' = timestamp_id
                  /\ obj'[t] = obj[t]
                  /\ ret'[t].ptr = p]_vars

====
